---- MODULE Spec2Model ----
(***************************************************************************)
(* Model of the staggered synchronisation scheduler of outlook-manager     *)
(* (backend/scheduler.py): the per-group round-robin tick, the token       *)
(* freshness gate, the protocol fallback chain, message ingest, the sync   *)
(* log and the new-mail event map, over a transactional store.             *)
(*                                                                         *)
(* Conventions.  Time is counted in minutes.  Texts (error messages, log   *)
(* messages) are represented by their length in characters, so that the    *)
(* slices str(e)[:100], [:200], [:500] are computed, not assumed.  Python  *)
(* None is NoTime for a timestamp, NoText for a text, NoToken for a token, *)
(* "none" for sync_method and "unknown" for a tri-state flag.              *)
(*                                                                         *)
(* The store is modelled as a unit of work: a session holds the loaded     *)
(* account objects (sess), the values they were loaded with (snap) and the *)
(* Email objects added to it (added); commit either writes all of it or    *)
(* raises and writes none of it, after which the session is rolled back.   *)
(***************************************************************************)
EXTENDS Integers, Sequences, FiniteSets, Bags, TLC

(* ------------------------------ bounds -------------------------------- *)
NumAccounts == 3
MaxBatch == 3
MaxAttempts == 4
MaxEvents == 2
MaxCalls == 2
MaxRecords == 203

(* ------------------------- program constants -------------------------- *)
MAX_LOG_ENTRIES == 200
TOKEN_MARGIN == 5
ERR_ITEM_MAX == 100
LOG_ERR_MAX == 200
LAST_ERROR_MAX == 500
MANUAL_ERR_ITEM_MAX == 150

(* ------------------------------ domains ------------------------------- *)
Acc == 1..NumAccounts
Grp == {1}
NoGroup == 0
NoTime == -1
NoText == -1
NoToken == 0
\* client_id of an account: its own application id, or None
NoClientId == "none"
OwnClientId == "own"
\* config.DEFAULT_CLIENT_ID
DEFAULT_CLIENT_ID == "default"
\* the accounts that were stored without a client_id
WithoutClientId == {2}
Methods == {"graph", "imap_new", "imap_old"}
DefaultOrder == <<"graph", "imap_new", "imap_old">>

\* Environment inputs: what the provider and the store can answer.
BatchSizes == 0..MaxBatch
\* the accounts that are disabled when the model starts
\* the accounts whose sync button is pressed
ManualAccounts == {1}
InitDisabled == { {}, {2}, {2, 3}, Acc }
ClockStep == TOKEN_MARGIN
ExpiresInVals == {10}
\* lengths of str(e): an httpx error names the URL, an IMAP error is a short sentence
GraphErrLens == {120}
ImapErrLens == {40}
CommitErrLens == {600}
MsgIds == {1, 2}
NoMsgId == 0
\* a fetched message: its provider id and its subject
Message(id, subject) == [id |-> id, subject |-> subject]
EmptyResp == [unread |-> 0, value |-> <<>>]
\* one message; the same message listed twice; a second message and the first one
\* again, under another subject
MailResps ==
    { [unread |-> 2, value |-> <<Message(1, 1)>>],
      [unread |-> 1, value |-> <<Message(1, 1), Message(1, 1)>>],
      [unread |-> 2, value |-> <<Message(2, 1), Message(1, 2)>>] }
\* a message as a provider lists it: with an id, or without one
ListedMessages == { Message(i, 1) : i \in MsgIds \cup {NoMsgId} }
\* the lists handed to the ingest on its own: every list of up to two messages,
\* and one of three with a message without an id in the middle
IngestResps ==
    { [unread |-> 0, value |-> v] :
        v \in { <<>> } \cup { <<m>> : m \in ListedMessages }
               \cup { <<m, n>> : m \in ListedMessages, n \in ListedMessages }
               \cup { <<Message(1, 1), Message(NoMsgId, 1), Message(2, 1)>> } }

VARIABLES
    now,               \* datetime.utcnow(), minutes
    groups,            \* table groups
    accounts,          \* table accounts (committed rows)
    emails,            \* table emails (committed rows)
    group_offsets,     \* _group_offsets
    sync_log,          \* sync_log, newest first
    new_email_events,  \* new_email_events
    tick,              \* the running _sync_accounts_for_group coroutine and its session
    manual,            \* the running sync_account request and its session
    history,           \* the batches the ticks selected so far, oldest first
    ingested,          \* the <<account, fetched list>> pairs given to an ingest so far
    jobs,              \* groups with a sync_group_<id> job in the scheduler
    requests,          \* the calls of the API layer so far and what they answered
    refresh_job,       \* the running token-refresh job and its session
    env                \* counters that bound the environment

vars == <<now, groups, accounts, emails, group_offsets, sync_log, new_email_events, tick,
          manual, history, ingested, jobs, requests, refresh_job, env>>

(* ------------------------------ helpers ------------------------------- *)
Min(a, b) == IF a < b THEN a ELSE b

RECURSIVE SortedSeq(_)
\* ORDER BY id over a set of ids
SortedSeq(S) ==
    IF S = {} THEN <<>>
    ELSE LET m == CHOOSE x \in S : \A y \in S : x <= y
         IN <<m>> \o SortedSeq(S \ {m})

Range(s) == { s[i] : i \in DOMAIN s }

\* dict.get(key, default)
Get(d, key, default) == IF key \in DOMAIN d THEN d[key] ELSE default

\* d[key] = value
Put(d, key, value) == [x \in DOMAIN d \cup {key} |-> IF x = key THEN value ELSE d[x]]

(* ------------------------------ sync log ------------------------------ *)
\* variant: a full log refuses the new entry
AddLog_DropsNewest(log, level, email, message) ==
    LET e == [level |-> level, email |-> email, message |-> message]
    IN IF Len(log) >= MAX_LOG_ENTRIES THEN log ELSE <<e>> \o log

\* deque(maxlen=MAX_LOG_ENTRIES).appendleft(entry)
AddLog(log, level, email, message) ==
    LET e == [level |-> level, email |-> email, message |-> message]
        l == <<e>> \o log
    IN IF Len(l) > MAX_LOG_ENTRIES THEN SubSeq(l, 1, MAX_LOG_ENTRIES) ELSE l

(* --------------------------- new-mail events -------------------------- *)
\* variant: the delta is added to the entry that is already there
RecordNewMail_Accumulates(events, a, old_unread, unread) ==
    IF unread > old_unread
    THEN Put(events, a, Get(events, a, 0) + (unread - old_unread))
    ELSE events

\* variant: a count that did not rise takes the entry of the account away
RecordNewMail_DropsOnFall(events, a, old_unread, unread) ==
    IF unread > old_unread THEN Put(events, a, unread - old_unread)
    ELSE [ b \in DOMAIN events \ {a} |-> events[b] ]

\* if unread > old_unread: new_email_events[account.id] = unread - old_unread
RecordNewMail(events, a, old_unread, unread) ==
    IF unread > old_unread THEN Put(events, a, unread - old_unread) ELSE events

(* -------------------------- token freshness --------------------------- *)
\* variant: the safety margin is taken twice
TokenFresh_DoubleMargin(account, t) ==
    account.token_expires_at # NoTime
        /\ account.token_expires_at > t + TOKEN_MARGIN + TOKEN_MARGIN

\* account.token_expires_at and account.token_expires_at > now + timedelta(minutes=5)
TokenFresh(account, t) ==
    account.token_expires_at # NoTime /\ account.token_expires_at > t + TOKEN_MARGIN

(* ------------------------- round-robin batch -------------------------- *)
\* grp.sync_batch_size or 1
BatchSize(grp) == IF grp.sync_batch_size = 0 THEN 1 ELSE grp.sync_batch_size

\* variant: the status filter is missing from the query
AllAccounts_WithDisabled(rows, g) ==
    SortedSeq({ a \in Acc : rows[a].group_id = g })

\* WHERE status != 'disabled' AND group_id = :g ORDER BY id
AllAccounts(rows, g) ==
    SortedSeq({ a \in Acc : rows[a].status # "disabled" /\ rows[a].group_id = g })

\* variant: the batch always starts at index 0
BatchIndices_FromZero(offset, batch_size, total) ==
    [ i \in 1..batch_size |-> (i - 1) % total ]

\* for i in range(batch_size): batch_indices.append((offset + i) % total)
BatchIndices(offset, batch_size, total) ==
    [ i \in 1..batch_size |-> (offset + (i - 1)) % total ]

RECURSIVE UniqueIndices(_)
\* de-duplicate, keeping the first occurrence of each index
UniqueIndices(batch_indices) ==
    IF batch_indices = <<>> THEN <<>>
    ELSE LET n == Len(batch_indices)
             front == UniqueIndices(SubSeq(batch_indices, 1, n - 1))
         IN IF batch_indices[n] \in Range(front) THEN front
            ELSE Append(front, batch_indices[n])

\* variant: the cursor runs over 1 .. total
NextOffset_UpToTotal(offset, unique_indices, total) ==
    ((offset + Len(unique_indices) - 1) % total) + 1

\* variant: the cursor is not reduced modulo total
NextOffset_NoWrap(offset, unique_indices, total) ==
    offset + Len(unique_indices)

\* next_offset = (offset + len(unique_indices)) % total
NextOffset(offset, unique_indices, total) ==
    (offset + Len(unique_indices)) % total

(* --------------------------- fallback order --------------------------- *)
\* variant: the cached sync_method is ignored
MethodsOrder_NoAffinity(sync_method) == DefaultOrder

\* methods_order.remove(sync_method); methods_order.insert(0, sync_method)
MethodsOrder(sync_method) ==
    IF sync_method \in Methods
    THEN <<sync_method>> \o SelectSeq(DefaultOrder, LAMBDA m : m # sync_method)
    ELSE DefaultOrder

(* ------------------------------ texts --------------------------------- *)
MethodLen(m) == IF m = "graph" THEN 5 ELSE 8

\* f"{method}: {str(e)[:100]}"
ErrItem(method, errlen) == MethodLen(method) + 2 + Min(errlen, ERR_ITEM_MAX)

RECURSIVE JoinLen(_)
\* "; ".join(sync_errors)
JoinLen(items) ==
    IF items = <<>> THEN 0
    ELSE IF Len(items) = 1 THEN items[1]
    ELSE items[1] + 2 + JoinLen(Tail(items))

\* variant: only the failure of the last protocol is reported
AllFailedText_LastOnly(sync_errors) == 9 + sync_errors[Len(sync_errors)]

\* "所有协议均失败: " + "; ".join(sync_errors)
AllFailedText(sync_errors) == 9 + JoinLen(sync_errors)

\* "Token 过期且刷新失败"
TokenFailedText == 13

Msg(kind, len) == [kind |-> kind, len |-> len]

(* ------------------------- effects on an account ---------------------- *)
\* the client id _maybe_refresh_token hands to refresh_access_token
RefreshClientId(account) == account.client_id

\* variant: a rotated refresh token is not stored
ApplyToken_KeepsRefresh(account, access, refresh, expires_in, t) ==
    [account EXCEPT !.access_token = access,
                    !.token_expires_at = t + expires_in]

\* token_data applied to the account after a successful refresh
ApplyToken(account, access, refresh, expires_in, t) ==
    [account EXCEPT !.access_token = access,
                    !.refresh_token = refresh,
                    !.token_expires_at = t + expires_in]

\* graph branch: unread_count, graph_enabled, then sync_method = used_method
GraphSuccess(account, unread) ==
    [account EXCEPT !.unread_count = unread,
                    !.graph_enabled = "true",
                    !.sync_method = "graph"]

\* variant: an IMAP success records that Graph does not work
ImapSuccess_ClearsGraph(account, method, unread) ==
    [account EXCEPT !.unread_count = unread,
                    !.imap_enabled = "true",
                    !.graph_enabled = "false",
                    !.sync_method = method]

\* variant: every IMAP success is recorded as imap_new
ImapSuccess_AlwaysNew(account, method, unread) ==
    [account EXCEPT !.unread_count = unread,
                    !.imap_enabled = "true",
                    !.sync_method = "imap_new"]

\* imap branch: unread_count, imap_enabled, then sync_method = used_method
ImapSuccess(account, method, unread) ==
    [account EXCEPT !.unread_count = unread,
                    !.imap_enabled = "true",
                    !.sync_method = method]

\* status = "active"; last_synced = utcnow(); last_error = None
MarkActive(account, t) ==
    [account EXCEPT !.status = "active", !.last_synced = t, !.last_error = NoText]

\* variant: the affinity survives a total failure
AllFailedReset_KeepMethod(account) ==
    [account EXCEPT !.graph_enabled = "unknown"]

\* if not used_method: sync_method = None; graph_enabled = None
AllFailedReset(account) ==
    [account EXCEPT !.sync_method = "none", !.graph_enabled = "unknown"]

\* variant: the handler records the error but leaves the status
MarkError_KeepStatus(account, errlen) ==
    [account EXCEPT !.last_error = Min(errlen, LAST_ERROR_MAX)]

\* except Exception as e: status = "error"; last_error = str(e)[:500]
MarkError(account, errlen) ==
    [account EXCEPT !.status = "error", !.last_error = Min(errlen, LAST_ERROR_MAX)]

\* variant: the failed refresh also drops the token it could not renew
MarkTokenFailed_ClearsToken(account) ==
    [account EXCEPT !.status = "error", !.last_error = TokenFailedText,
                    !.access_token = NoToken, !.token_expires_at = NoTime]

\* token gate failed: status = "error"; last_error = "Token 过期且刷新失败"
MarkTokenFailed(account) ==
    [account EXCEPT !.status = "error", !.last_error = TokenFailedText]

(* ------------------------------ ingest -------------------------------- *)
\* variant: ids already known are added again
SaveEmails_NoExisting(existing_ids, messages) ==
    SelectSeq(messages, LAMBDA m : m.id # NoMsgId)

\* variant: a message without an id is stored as well
SaveEmails_KeepsIdless(existing_ids, messages) ==
    SelectSeq(messages, LAMBDA m : m.id \notin existing_ids)

\* _save_emails_from_list: the messages added to the session, in order
SaveEmails(existing_ids, messages) ==
    SelectSeq(messages, LAMBDA m : m.id # NoMsgId /\ m.id \notin existing_ids)

\* Email(account_id=account.id, message_id=msg_id, subject=...)
EmailRow(a, m) == [account_id |-> a, message_id |-> m.id, subject |-> m.subject]

RECURSIVE AddAll(_, _, _)
\* session.add(Email(account_id, message_id)) for each saved id
AddAll(added, a, ids) ==
    IF ids = <<>> THEN added
    ELSE AddAll(added (+) SetToBag({EmailRow(a, Head(ids))}), a, Tail(ids))

(* --------------------------- unit of work ----------------------------- *)
\* uq_account_message would be violated by flushing the added Email objects
UniqueViolation(rows, added) ==
    \E e \in BagToSet(added) :
        \/ CopiesIn(e, added) > 1
        \/ \E f \in rows \cup (BagToSet(added) \ {e}) :
              f.account_id = e.account_id /\ f.message_id = e.message_id

\* UPDATE of the attributes that changed since they were loaded
Flush(rows, sess, snap) ==
    [ a \in Acc |->
        IF a \in DOMAIN sess
        THEN [ f \in DOMAIN rows[a] |->
                 IF sess[a][f] # snap[a][f] THEN sess[a][f] ELSE rows[a][f] ]
        ELSE rows[a] ]

(* ------------------------------ state --------------------------------- *)
\* a row of table accounts as created by the import routes
NewAccount(g, status, client_id) ==
    [ group_id |-> g, status |-> status, client_id |-> client_id, sync_method |-> "none",
      graph_enabled |-> "unknown", imap_enabled |-> "unknown",
      unread_count |-> 0, last_error |-> NoText, last_synced |-> NoTime,
      access_token |-> NoToken, refresh_token |-> 1, token_expires_at |-> NoTime ]

\* no token_data: refresh_access_token was not called or did not return
NoTokenData == [ access_token |-> NoToken, refresh_token |-> NoToken, expires_in |-> 0 ]

\* no tick is running
IdleTick ==
    [ pc |-> "idle", outcome |-> "none", group_id |-> NoGroup, proxy_url |-> FALSE,
      batch_size |-> 0, all_accounts |-> <<>>, total |-> 0, start_offsets |-> <<>>,
      start_rows |-> <<>>, start_log |-> 0, start_events |-> <<>>,
      offset |-> 0, unique_indices |-> <<>>, k |-> 0,
      sess |-> <<>>, snap |-> <<>>, added |-> EmptyBag,
      gate |-> "none", methods_order |-> <<>>, mi |-> 0, sync_errors |-> <<>>,
      troubled |-> FALSE, commit_raised |-> FALSE, tried |-> <<>>, results |-> <<>>,
      stored |-> <<>>, clean |-> {}, value |-> <<>>, known |-> {}, affinity |-> "none",
      again |-> FALSE, client_id |-> "unsent", token_data |-> NoTokenData,
      count_ok |-> TRUE ]

\* no sync_account request is running
IdleManual ==
    [ pc |-> "idle", outcome |-> "none", account |-> 0, proxy_url |-> FALSE,
      sess |-> <<>>, snap |-> <<>>, gate |-> "none", methods_order |-> <<>>, mi |-> 0,
      sync_error_details |-> <<>>, troubled |-> FALSE, tried |-> <<>> ]

\* no token-refresh job is running
IdleRefresh ==
    [ pc |-> "idle", outcome |-> "none", job |-> "none", group_id |-> NoGroup,
      accounts |-> <<>>, k |-> 0, sess |-> <<>>, snap |-> <<>>, ok |-> FALSE,
      success_count |-> 0, fail_count |-> 0, results |-> <<>> ]

\* the accounts table when the model starts, D being the disabled accounts
InitAccounts(D) ==
    [ a \in Acc |-> NewAccount(1, IF a \in D THEN "disabled" ELSE "active",
                               IF a \in WithoutClientId THEN NoClientId ELSE OwnClientId) ]

\* _setup_group_jobs at startup: one sync job per group with auto_sync
SetupGroupJobs(grps) == { g \in DOMAIN grps : grps[g].auto_sync }

\* no call of the API layer was made
NoRequests == [ notifications |-> <<>>, sync_all |-> <<>>, groups |-> 0 ]

Init ==
    /\ now = 0
    /\ groups \in [ Grp -> [ auto_sync : {TRUE}, sync_batch_size : BatchSizes,
                             proxy_url : {TRUE} ] ]
    /\ \E D \in InitDisabled : accounts = InitAccounts(D)
    /\ jobs = SetupGroupJobs(groups)
    /\ requests = NoRequests
    /\ emails = {}
    /\ group_offsets = <<>>
    /\ sync_log = <<>>
    /\ new_email_events = <<>>
    /\ tick = IdleTick
    /\ manual = IdleManual
    /\ refresh_job = IdleRefresh
    /\ history = <<>>
    /\ ingested = {}
    /\ env = [ attempts |-> 0, events |-> 0,
               issued |-> 1, refresh_calls |-> 0, records |-> 0 ]
(* Bounds on the run.  env.attempts counts the account syncs the ticks have  *)
(* selected.  env.events counts what the environment did beyond the plain   *)
(* run (every provider call succeeds on an empty mailbox and rotates the    *)
(* refresh token, the clock stands still, nobody calls the API): an account *)
(* attempt or a batch commit in which the provider or the store failed      *)
(* (all failures inside one attempt are one event), a provider answer other *)
(* than the plain one, a clock step, a call of the account-group route.     *)
(* A call of the manual sync route counts as two events: the call, and      *)
(* whatever the provider answers to its calls.                              *)
\* the account the loop body is working on: all_accounts[idx]
Cur == tick.all_accounts[tick.unique_indices[tick.k] + 1]

\* the provider or the store fails during the current attempt
Event == [env EXCEPT !.events = @ + 1]

CanHappen == env.events < MaxEvents

Fault == IF tick.troubled THEN env ELSE Event

CanFail == tick.troubled \/ CanHappen

\* the loop moves to the next selected account, or leaves the loop
NextAccount(t, result, unread, ids) ==
    LET r == [ account |-> t.all_accounts[t.unique_indices[t.k] + 1],
               gate |-> t.gate, tried |-> t.tried, result |-> result,
               unread |-> unread, ids |-> ids, at |-> now,
               value |-> t.value, known |-> t.known, affinity |-> t.affinity,
               again |-> t.again, client_id |-> t.client_id,
               sync_errors |-> t.sync_errors, count_ok |-> t.count_ok ]
        u == [t EXCEPT !.results = Append(@, r), !.gate = "none", !.methods_order = <<>>,
                       !.mi = 0, !.sync_errors = <<>>, !.tried = <<>>,
                       !.troubled = FALSE, !.value = <<>>, !.known = {},
                       !.affinity = "none", !.again = FALSE, !.client_id = "unsent",
                       !.token_data = NoTokenData, !.count_ok = TRUE]
    IN IF t.k < Len(t.unique_indices)
       THEN [u EXCEPT !.k = @ + 1, !.pc = "gate"]
       ELSE [u EXCEPT !.pc = "final_commit"]

(* ------------------- _sync_accounts_for_group: load ------------------- *)
\* variant: the auto_sync flag is not looked at
Invisible_IgnoresAutoSync(grps, g) == g \notin DOMAIN grps

\* if not grp or not grp.auto_sync: return
Invisible(grps, g) == g \notin DOMAIN grps \/ ~grps[g].auto_sync

TickLoad(g) ==
    /\ tick.pc = "idle"
    /\ g \in jobs
    /\ LET grp == groups[g]
           all == AllAccounts(accounts, g)
           total == Len(all)
           cursor == Get(group_offsets, g, 0)
           offset == cursor % total
           loaded == [ a \in Range(all) |-> accounts[a] ]
       IN IF Invisible(groups, g) \/ total = 0
          THEN /\ tick' = [IdleTick EXCEPT !.outcome = "noop", !.group_id = g]
               /\ UNCHANGED <<env, history>>
          ELSE /\ env.attempts + Min(BatchSize(grp), total) <= MaxAttempts
               /\ history' = Append(history,
                      [ group_id |-> g, members |-> all, batch_size |-> BatchSize(grp),
                        selected |-> { all[x + 1] : x \in Range(
                            UniqueIndices(BatchIndices(offset, BatchSize(grp), total))) } ])
               /\ env' = [env EXCEPT !.attempts = @ + Min(BatchSize(grp), total)]
               /\ tick' = [IdleTick EXCEPT
                          !.pc = "gate", !.outcome = "running", !.group_id = g,
                          !.proxy_url = grp.proxy_url,
                          !.batch_size = BatchSize(grp),
                          !.all_accounts = all, !.total = total,
                          !.start_offsets = group_offsets, !.offset = offset,
                          !.start_rows = accounts, !.start_log = Len(sync_log),
                          !.start_events = new_email_events,
                          !.unique_indices =
                              UniqueIndices(BatchIndices(offset, BatchSize(grp), total)),
                          !.k = 1, !.sess = loaded, !.snap = loaded]
    /\ UNCHANGED <<refresh_job, jobs, requests, manual, ingested, now, groups, accounts, emails, group_offsets, sync_log,
                   new_email_events>>

(* ------------------------ _maybe_refresh_token ------------------------ *)
\* token still valid: no refresh
GateFast ==
    /\ tick.pc = "gate"
    /\ TokenFresh(tick.sess[Cur], now)
    /\ tick' = [tick EXCEPT !.pc = "fetch", !.gate = "fast", !.mi = 1,
                            !.affinity = tick.sess[Cur].sync_method,
                            !.methods_order = MethodsOrder(tick.sess[Cur].sync_method)]
    /\ UNCHANGED <<refresh_job, jobs, requests, history, ingested, manual, now, groups, accounts, emails, group_offsets, sync_log,
                   new_email_events, env>>

\* refresh_access_token returned token_data
GateRefreshOk(expires_in, rotated) ==
    /\ tick.pc = "gate"
    /\ ~TokenFresh(tick.sess[Cur], now)
    /\ LET a == Cur
           access == env.issued + 1
           refresh == IF rotated THEN env.issued + 1 ELSE tick.sess[a].refresh_token
           acct == ApplyToken(tick.sess[a], access, refresh, expires_in, now)
       IN tick' = [tick EXCEPT !.pc = "fetch", !.gate = "refreshed", !.mi = 1,
                               !.sess[a] = acct,
                               !.client_id = RefreshClientId(tick.sess[a]),
                               !.token_data = [ access_token |-> access,
                                                refresh_token |-> refresh,
                                                expires_in |-> expires_in ],
                               !.affinity = acct.sync_method,
                               !.methods_order = MethodsOrder(acct.sync_method)]
    /\ rotated \/ CanHappen
    /\ env' = [(IF rotated THEN env ELSE Event) EXCEPT
                   !.issued = @ + 1, !.refresh_calls = @ + 1]
    /\ UNCHANGED <<refresh_job, jobs, requests, history, ingested, manual, now, groups, accounts, emails, group_offsets, sync_log, new_email_events>>

\* refresh_access_token raised: the gate returns False and the account is skipped
GateRefreshFail ==
    /\ tick.pc = "gate"
    /\ ~TokenFresh(tick.sess[Cur], now)
    /\ CanFail
    /\ LET a == Cur
       IN /\ sync_log' = AddLog(sync_log, "error", a, Msg("token_skip", TokenFailedText + 5))
          /\ tick' = [tick EXCEPT !.pc = "commit_skip", !.gate = "failed",
                                  !.troubled = TRUE,
                                  !.client_id = RefreshClientId(tick.sess[a]),
                                  !.sess[a] = MarkTokenFailed(tick.sess[a])]
    /\ env' = [Fault EXCEPT !.refresh_calls = @ + 1]
    /\ UNCHANGED <<refresh_job, jobs, requests, history, ingested, manual, now, groups, accounts, emails, group_offsets, new_email_events>>

(* --------------------- commit on the skip path ------------------------ *)
\* rows of the session after a rollback: reloaded from the table
Reloaded(t) == [ a \in DOMAIN t.sess |-> accounts[a] ]

\* await session.commit() succeeded; continue
CommitSkipOk ==
    /\ tick.pc = "commit_skip"
    /\ ~UniqueViolation(emails, tick.added)
    /\ accounts' = Flush(accounts, tick.sess, tick.snap)
    /\ emails' = emails \cup BagToSet(tick.added)
    /\ tick' = NextAccount([tick EXCEPT !.snap = tick.sess, !.added = EmptyBag],
                           "token_failed", 0, <<>>)
    /\ UNCHANGED <<refresh_job, jobs, requests, history, ingested, manual, now, groups, group_offsets, sync_log, new_email_events, env>>

\* await session.commit() raised inside the try: caught by the handler of the account
CommitSkipFail(errlen) ==
    /\ tick.pc = "commit_skip"
    /\ \/ UniqueViolation(emails, tick.added) /\ env' = env
       \/ CanFail /\ env' = Fault
    /\ LET a == Cur
           rolled == Reloaded(tick)
       IN /\ tick' = NextAccount([tick EXCEPT !.sess = [rolled EXCEPT ![a] = MarkError(@, errlen)],
                                              !.snap = rolled, !.added = EmptyBag,
                                              !.commit_raised = TRUE],
                                 "commit_failed", 0, <<>>)
          /\ sync_log' = AddLog(sync_log, "error", a,
                                Msg("sync_failed", 6 + Min(errlen, LOG_ERR_MAX)))
    /\ UNCHANGED <<refresh_job, jobs, requests, history, ingested, manual, now, groups, accounts, emails, group_offsets, new_email_events>>

(* --------------------------- fallback chain --------------------------- *)
Method == tick.methods_order[tick.mi]

\* message ids already known for the account, as the session's query sees them
ExistingIds(a) ==
    { e.message_id : e \in { x \in emails \cup BagToSet(tick.added) : x.account_id = a } }

\* the provider answers within the bound on non-empty answers
Answer(resp) ==
    \/ resp = EmptyResp /\ UNCHANGED env
    \/ resp # EmptyResp /\ CanHappen /\ env' = Event

\* the protocol delivered: the branch body, the break and the tail of the try block
Succeeded(a, method, acct, old_unread, unread, value, count_ok) ==
    LET ids == SaveEmails(ExistingIds(a), value)
        saved == Len(ids)
        l1 == IF unread > old_unread
              THEN AddLog(sync_log, "info", a, Msg("new_mail", unread - old_unread))
              ELSE sync_log
        l2 == IF saved > 0 THEN AddLog(l1, "info", a, Msg("saved", saved)) ELSE l1
    IN /\ new_email_events' = RecordNewMail(new_email_events, a, old_unread, unread)
       /\ sync_log' = AddLog(l2, "success", a, Msg(method, unread))
       /\ ingested' = ingested \cup {<<a, value>>}
       /\ tick' = NextAccount(
              [tick EXCEPT !.sess[a] = MarkActive(acct, now),
                           !.count_ok = count_ok,
                           !.added = AddAll(@, a, ids),
                           !.value = value, !.known = ExistingIds(a),
                           !.again = <<a, value>> \in ingested,
                           !.tried = Append(@, [method |-> method, outcome |-> "ok"])],
              "ok", unread, ids)

\* the protocol raised: remember the error, try the next one or give up
Failed(a, method, kind, errlen) ==
    LET errs == Append(tick.sync_errors, ErrItem(method, errlen))
        tried == Append(tick.tried, [method |-> method, outcome |-> kind])
    IN IF tick.mi < Len(tick.methods_order)
       THEN /\ tick' = [tick EXCEPT !.mi = @ + 1, !.sync_errors = errs, !.tried = tried,
                                    !.troubled = TRUE]
            /\ UNCHANGED sync_log
       ELSE LET text == AllFailedText(errs)
            IN /\ tick' = NextAccount(
                      [tick EXCEPT !.sess[a] = MarkError(AllFailedReset(@), text),
                                   !.sync_errors = errs, !.tried = tried],
                      "all_failed", 0, <<>>)
               /\ sync_log' = AddLog(sync_log, "error", a,
                                     Msg("sync_failed", 6 + Min(text, LOG_ERR_MAX)))

\* fetch_emails and get_unread_count over Graph
GraphOk(resp, count_ok) ==
    /\ tick.pc = "fetch" /\ Method = "graph"
    /\ \/ count_ok /\ Answer(resp)
       \/ ~count_ok /\ resp = EmptyResp /\ CanFail /\ env' = Fault
    /\ LET a == Cur
           unread == IF count_ok THEN resp.unread ELSE 0
       IN Succeeded(a, "graph", GraphSuccess(tick.sess[a], unread),
                    tick.sess[a].unread_count, unread, resp.value, count_ok)
    /\ UNCHANGED <<refresh_job, jobs, requests, history, manual, now, groups, accounts, emails, group_offsets>>

\* fetch_emails raised (kind "proxy": ProxyError, possible with a proxy_url only)
GraphFail(kind, errlen) ==
    /\ tick.pc = "fetch" /\ Method = "graph"
    /\ kind = "proxy" => tick.proxy_url
    /\ CanFail /\ env' = Fault
    /\ Failed(Cur, "graph", kind, errlen)
    /\ UNCHANGED <<refresh_job, jobs, requests, history, ingested, manual, now, groups, accounts, emails, group_offsets, new_email_events>>

\* fetch_emails_imap(method=imap_new | imap_old) returned
ImapOk(resp) ==
    /\ tick.pc = "fetch" /\ Method \in {"imap_new", "imap_old"}
    /\ Answer(resp)
    /\ LET a == Cur
       IN Succeeded(a, Method, ImapSuccess(tick.sess[a], Method, resp.unread),
                    tick.sess[a].unread_count, resp.unread, resp.value, TRUE)
    /\ UNCHANGED <<refresh_job, jobs, requests, history, manual, now, groups, accounts, emails, group_offsets>>

\* fetch_emails_imap raised
ImapFail(errlen) ==
    /\ tick.pc = "fetch" /\ Method \in {"imap_new", "imap_old"}
    /\ CanFail /\ env' = Fault
    /\ Failed(Cur, Method, "error", errlen)
    /\ UNCHANGED <<refresh_job, jobs, requests, history, ingested, manual, now, groups, accounts, emails, group_offsets, new_email_events>>

(* ------------------- commit of the batch, cursor ---------------------- *)
\* the loaded accounts whose row no other session has written since this session
\* loaded or last committed it
Undisturbed(t) == { a \in DOMAIN t.sess : accounts[a] = t.snap[a] }

\* await session.commit() succeeded; advance offset
FinalCommitOk ==
    /\ tick.pc = "final_commit"
    /\ ~UniqueViolation(emails, tick.added)
    /\ accounts' = Flush(accounts, tick.sess, tick.snap)
    /\ emails' = emails \cup BagToSet(tick.added)
    /\ group_offsets' = Put(group_offsets, tick.group_id,
                            NextOffset(tick.offset, tick.unique_indices, tick.total))
    /\ tick' = [tick EXCEPT !.pc = "idle", !.outcome = "returned",
                            !.snap = tick.sess, !.added = EmptyBag,
                            !.stored = accounts', !.clean = Undisturbed(tick)]
    /\ UNCHANGED <<refresh_job, jobs, requests, history, ingested, manual, now, groups, sync_log, new_email_events, env>>

\* await session.commit() raised outside any try: the coroutine ends with the exception
FinalCommitFail ==
    /\ tick.pc = "final_commit"
    /\ \/ UniqueViolation(emails, tick.added) /\ env' = env
       \/ CanHappen /\ env' = Event
    /\ tick' = [tick EXCEPT !.pc = "idle", !.outcome = "raised", !.added = EmptyBag,
                            !.commit_raised = TRUE,
                            !.stored = accounts, !.clean = Undisturbed(tick)]
    /\ UNCHANGED <<refresh_job, jobs, requests, history, ingested, manual, now, groups, accounts, emails, group_offsets, sync_log, new_email_events>>

(* ------------------ POST /api/accounts/{id}/sync ---------------------- *)
\* the request's session as a one-row unit of work
Row(a, row) == [ x \in {a} |-> row ]

ManualFault == IF manual.troubled THEN env ELSE Event

ManualCanFail == manual.troubled \/ CanHappen

\* the provider answers the request's call: what it answers is part of the two
\* events of the request
ManualAnswer(resp) ==
    \/ resp = EmptyResp /\ UNCHANGED env
    \/ resp # EmptyResp /\ ManualCanFail /\ env' = ManualFault

\* sync_error_details.append(f"{method}: {str(e)[:150]}")
ManualErrItem(method, errlen) == MethodLen(method) + 2 + Min(errlen, MANUAL_ERR_ITEM_MAX)

\* load the account and its group's proxy; status = "syncing"; commit
ManualStart(a) ==
    /\ manual.pc = "idle"
    /\ env.events + 2 <= MaxEvents
    /\ LET row == [accounts[a] EXCEPT !.status = "syncing"]
           g == accounts[a].group_id
       IN /\ accounts' = [accounts EXCEPT ![a] = row]
          /\ manual' = [IdleManual EXCEPT
                            !.pc = "gate", !.outcome = "running", !.account = a,
                            !.troubled = TRUE,
                            !.proxy_url = (g # NoGroup /\ groups[g].proxy_url),
                            !.sess = Row(a, row), !.snap = Row(a, row)]
    /\ env' = [env EXCEPT !.events = @ + 2]
    /\ UNCHANGED <<refresh_job, jobs, requests, history, ingested, now, groups, emails, group_offsets, sync_log, new_email_events, tick>>

\* _maybe_refresh_token returned True without a refresh
ManualGateFast ==
    /\ manual.pc = "gate"
    /\ LET a == manual.account
       IN /\ TokenFresh(manual.sess[a], now)
          /\ manual' = [manual EXCEPT !.pc = "fetch", !.gate = "fast", !.mi = 1,
                           !.methods_order = MethodsOrder(manual.sess[a].sync_method)]
    /\ UNCHANGED <<refresh_job, jobs, requests, history, ingested, now, groups, accounts, emails, group_offsets, sync_log,
                   new_email_events, tick, env>>

\* _maybe_refresh_token refreshed the token and returned True
ManualGateRefreshOk(expires_in, rotated) ==
    /\ manual.pc = "gate"
    /\ LET a == manual.account
           access == env.issued + 1
           refresh == IF rotated THEN env.issued + 1 ELSE manual.sess[a].refresh_token
           acct == ApplyToken(manual.sess[a], access, refresh, expires_in, now)
       IN /\ ~TokenFresh(manual.sess[a], now)
          /\ manual' = [manual EXCEPT !.pc = "fetch", !.gate = "refreshed", !.mi = 1,
                           !.sess[a] = acct,
                           !.methods_order = MethodsOrder(acct.sync_method)]
    /\ rotated \/ CanHappen
    /\ env' = [(IF rotated THEN env ELSE Event) EXCEPT
                   !.issued = @ + 1, !.refresh_calls = @ + 1]
    /\ UNCHANGED <<refresh_job, jobs, requests, history, ingested, now, groups, accounts, emails, group_offsets, sync_log,
                   new_email_events, tick>>

\* _maybe_refresh_token returned False: the text is noted and the sync goes on
ManualGateRefreshFail ==
    /\ manual.pc = "gate"
    /\ LET a == manual.account
       IN /\ ~TokenFresh(manual.sess[a], now)
          /\ manual' = [manual EXCEPT !.pc = "fetch", !.gate = "failed", !.mi = 1,
                           !.troubled = TRUE,
                           !.sync_error_details = <<TokenFailedText>>,
                           !.methods_order = MethodsOrder(manual.sess[a].sync_method)]
    /\ ManualCanFail
    /\ env' = [ManualFault EXCEPT !.refresh_calls = @ + 1]
    /\ UNCHANGED <<refresh_job, jobs, requests, history, ingested, now, groups, accounts, emails, group_offsets, sync_log,
                   new_email_events, tick>>

ManualMethod == manual.methods_order[manual.mi]

\* message ids of the account as the request's query sees them
ManualExistingIds(a) == { e.message_id : e \in { x \in emails : x.account_id = a } }

\* a protocol delivered: ingest, check_graph, status = "active", commit; when the
\* commit raises the handler records the error and commits that
ManualSucceeded(a, method, acct, value, graph_ok) ==
    LET ids == SaveEmails(ManualExistingIds(a), value)
        added == AddAll(EmptyBag, a, ids)
        checked == IF acct.graph_enabled = "unknown" /\ acct.access_token # NoToken
                   THEN [acct EXCEPT !.graph_enabled = IF graph_ok THEN "true" ELSE "false"]
                   ELSE acct
        done == MarkActive(checked, now)
        tried == Append(manual.tried, [method |-> method, outcome |-> "ok", at |-> now])
    IN /\ ingested' = ingested \cup {<<a, value>>}
       /\ IF ~UniqueViolation(emails, added)
          THEN /\ accounts' = Flush(accounts, Row(a, done), manual.snap)
               /\ emails' = emails \cup BagToSet(added)
               /\ manual' = [manual EXCEPT !.pc = "idle", !.outcome = "ok", !.tried = tried,
                                           !.sess = Row(a, done), !.snap = Row(a, done)]
          ELSE LET failed == MarkError(accounts[a], Head(SortedSeq(CommitErrLens)))
               IN /\ accounts' = [accounts EXCEPT ![a] = failed]
                  /\ emails' = emails
                  /\ manual' = [manual EXCEPT !.pc = "idle", !.outcome = "error",
                                              !.tried = tried,
                                              !.sess = Row(a, failed), !.snap = Row(a, failed)]

\* a protocol raised: note it and try the next one; after the last one reset the
\* affinity, record the error and commit.  When that commit, the one of the handler,
\* raises as well (committed = FALSE), the exception leaves the route and the row
\* stays as the last commit left it.
ManualFailed(a, method, kind, errlen, committed) ==
    LET errs == Append(manual.sync_error_details, ManualErrItem(method, errlen))
        tried == Append(manual.tried, [method |-> method, outcome |-> kind, at |-> now])
    IN IF manual.mi < Len(manual.methods_order)
       THEN /\ committed
            /\ manual' = [manual EXCEPT !.mi = @ + 1, !.sync_error_details = errs,
                                        !.tried = tried, !.troubled = TRUE]
            /\ UNCHANGED accounts
       ELSE LET failed == MarkError(AllFailedReset(manual.sess[a]), AllFailedText(errs))
            IN IF committed
               THEN /\ accounts' = Flush(accounts, Row(a, failed), manual.snap)
                    /\ manual' = [manual EXCEPT
                                      !.pc = "idle", !.outcome = "error",
                                      !.sync_error_details = errs, !.tried = tried,
                                      !.sess = Row(a, failed), !.snap = Row(a, failed)]
               ELSE /\ UNCHANGED accounts
                    /\ manual' = [manual EXCEPT
                                      !.pc = "idle", !.outcome = "raised",
                                      !.sync_error_details = errs, !.tried = tried,
                                      !.sess = Row(a, failed)]

\* fetch_emails and get_unread_count over Graph
ManualGraphOk(resp, count_ok, graph_ok) ==
    /\ manual.pc = "fetch" /\ ManualMethod = "graph"
    /\ \/ count_ok /\ ManualAnswer(resp)
       \/ ~count_ok /\ resp = EmptyResp /\ ManualCanFail /\ env' = ManualFault
    /\ LET a == manual.account
           unread == IF count_ok THEN resp.unread ELSE 0
       IN ManualSucceeded(a, "graph",
                          [manual.sess[a] EXCEPT !.unread_count = unread,
                                                 !.graph_enabled = "true",
                                                 !.sync_method = "graph"],
                          resp.value, graph_ok)
    /\ UNCHANGED <<refresh_job, jobs, requests, history, now, groups, group_offsets, sync_log, new_email_events, tick>>

\* fetch_emails raised
ManualGraphFail(kind, errlen, committed) ==
    /\ manual.pc = "fetch" /\ ManualMethod = "graph"
    /\ kind = "proxy" => manual.proxy_url
    /\ ManualCanFail /\ env' = ManualFault
    /\ ManualFailed(manual.account, "graph", kind, errlen, committed)
    /\ UNCHANGED <<refresh_job, jobs, requests, history, ingested, now, groups, emails, group_offsets, sync_log, new_email_events, tick>>

\* fetch_emails_imap(method=imap_new | imap_old) returned
ManualImapOk(resp, graph_ok) ==
    /\ manual.pc = "fetch" /\ ManualMethod \in {"imap_new", "imap_old"}
    /\ ManualAnswer(resp)
    /\ LET a == manual.account
       IN ManualSucceeded(a, ManualMethod,
                          ImapSuccess(manual.sess[a], ManualMethod, resp.unread),
                          resp.value, graph_ok)
    /\ UNCHANGED <<refresh_job, jobs, requests, history, now, groups, group_offsets, sync_log, new_email_events, tick>>

\* fetch_emails_imap raised
ManualImapFail(errlen, committed) ==
    /\ manual.pc = "fetch" /\ ManualMethod \in {"imap_new", "imap_old"}
    /\ ManualCanFail /\ env' = ManualFault
    /\ ManualFailed(manual.account, ManualMethod, "error", errlen, committed)
    /\ UNCHANGED <<refresh_job, jobs, requests, history, ingested, now, groups, emails, group_offsets, sync_log, new_email_events, tick>>

(* ------------------------------ clock --------------------------------- *)
AdvanceClock ==
    /\ CanHappen
    /\ now' = now + ClockStep
    /\ env' = Event
    /\ UNCHANGED <<refresh_job, jobs, requests, history, ingested, manual, groups, accounts, emails, group_offsets, sync_log, new_email_events, tick>>

(* ------------------- PATCH /api/accounts/{id}/group ------------------- *)
\* update_account_group, between two ticks: account.group_id = payload.group_id
UpdateAccountGroup(a, g) ==
    /\ tick.pc = "idle"
    /\ CanHappen
    /\ accounts[a].group_id # g
    /\ accounts' = [accounts EXCEPT ![a].group_id = g]
    /\ env' = Event
    /\ UNCHANGED <<refresh_job, jobs, requests, history, ingested, manual, now, groups, emails, group_offsets, sync_log, new_email_events, tick>>

(* ------------------------ GET /api/notifications ---------------------- *)
\* the calls of the API layer made so far
Calls == Len(requests.notifications) + Len(requests.sync_all) + requests.groups

\* variant: the map is returned but not cleared
Cleared_KeepsEntries(events) == events

\* new_email_events.clear()
Cleared(events) == <<>>

\* get_notifications: events = dict(new_email_events); clear; return events
GetNotifications ==
    /\ Calls < MaxCalls
    /\ requests' = [requests EXCEPT !.notifications = Append(@, new_email_events)]
    /\ new_email_events' = Cleared(new_email_events)
    /\ UNCHANGED <<refresh_job, jobs, history, ingested, manual, now, groups, accounts, emails,
                   group_offsets, sync_log, tick, env>>

(* ----------------------- POST /api/accounts/sync-all ------------------- *)
\* the names scheduler.py defines at module level
SchedulerNames ==
    { "new_email_events", "_group_offsets", "MAX_LOG_ENTRIES", "sync_log", "scheduler",
      "_add_log", "_maybe_refresh_token", "_save_emails_from_list",
      "_sync_accounts_for_group", "_refresh_group_tokens", "get_sync_status",
      "get_sync_log", "auto_refresh_all_tokens", "init_refresh_schedule",
      "_setup_group_jobs", "start_scheduler", "stop_scheduler" }

\* sync_all_now: `from scheduler import sync_one_account` raises ImportError, the
\* request is answered with a server error and nothing was synced
SyncAllNow ==
    /\ Calls < MaxCalls
    /\ "sync_one_account" \notin SchedulerNames
    /\ requests' = [requests EXCEPT !.sync_all = Append(@, "raised")]
    /\ UNCHANGED <<refresh_job, jobs, history, ingested, manual, now, groups, accounts, emails,
                   group_offsets, sync_log, new_email_events, tick, env>>

(* ----------------------- PUT, DELETE /api/groups/{id} ------------------ *)
\* update_group with auto_sync in the payload, between two ticks: the row is written,
\* the scheduler is not told
UpdateGroup(g, auto_sync) ==
    /\ tick.pc = "idle"
    /\ Calls < MaxCalls
    /\ g \in DOMAIN groups
    /\ groups[g].auto_sync # auto_sync
    /\ groups' = [groups EXCEPT ![g].auto_sync = auto_sync]
    /\ requests' = [requests EXCEPT !.groups = @ + 1]
    /\ UNCHANGED <<refresh_job, jobs, history, ingested, manual, now, accounts, emails, group_offsets,
                   sync_log, new_email_events, tick, env>>

\* delete_group, between two ticks: the accounts of the group lose their group, the row
\* is deleted, the job of the group stays in the scheduler
DeleteGroup(g) ==
    /\ tick.pc = "idle"
    /\ Calls < MaxCalls
    /\ g \in DOMAIN groups
    /\ accounts' = [ a \in Acc |-> IF accounts[a].group_id = g
                                    THEN [accounts[a] EXCEPT !.group_id = NoGroup]
                                    ELSE accounts[a] ]
    /\ groups' = [ h \in DOMAIN groups \ {g} |-> groups[h] ]
    /\ requests' = [requests EXCEPT !.groups = @ + 1]
    /\ UNCHANGED <<refresh_job, jobs, history, ingested, manual, now, emails, group_offsets, sync_log,
                   new_email_events, tick, env>>

(* ------------------------- token-refresh jobs ------------------------- *)
(* _refresh_group_tokens and auto_refresh_all_tokens: one session for the   *)
(* whole job, one commit per account in _do_refresh_one.  The groups of the *)
(* model have auto_refresh_token on, so a group with a sync job has a       *)
(* refresh job as well.  The rows of RefreshLog, refresh_status and         *)
(* last_refresh_at are left out, and so is a failure of the job's commits.  *)
(* The run of a job counts as two events, like a call of the manual sync     *)
(* route: the run, and whatever the provider answers to its calls.           *)
\* the account _do_refresh_one is working on
RefreshCur == refresh_job.accounts[refresh_job.k]

\* client_id = account.client_id or DEFAULT_CLIENT_ID
DoRefreshClientId(account) ==
    IF account.client_id # NoClientId THEN account.client_id ELSE DEFAULT_CLIENT_ID

\* not (not client_id or not account.refresh_token)
Refreshable(account) ==
    DoRefreshClientId(account) # "" /\ account.refresh_token # NoToken

\* the assignments of _do_refresh_one after refresh_access_token returned
RefreshSucceeded(account, access, refresh_token, expires_in, t) ==
    [ApplyToken(account, access, refresh_token, expires_in, t) EXCEPT
        !.status = "active", !.last_error = NoText]

\* except Exception as e: last_error = str(e)
RefreshRaised(account, errlen) == [account EXCEPT !.last_error = errlen]

\* the accounts a refresh job works on: those with a refresh token, of the group or
\* of the whole table
RefreshAccounts(rows, S) ==
    SortedSeq({ a \in S : rows[a].refresh_token # NoToken })

\* the job starts on its accounts
RefreshStarted(job, g, sel) ==
    [IdleRefresh EXCEPT !.pc = "call", !.outcome = "running", !.job = job, !.group_id = g,
                        !.accounts = sel, !.k = 1,
                        !.sess = [ a \in Range(sel) |-> accounts[a] ],
                        !.snap = [ a \in Range(sel) |-> accounts[a] ]]

\* _refresh_group_tokens up to the loop
RefreshGroupTokens(g) ==
    /\ refresh_job.pc = "idle"
    /\ g \in jobs
    /\ LET sel == RefreshAccounts(accounts, { a \in Acc : accounts[a].group_id = g })
       IN IF g \notin DOMAIN groups \/ sel = <<>>
          THEN /\ refresh_job' = [IdleRefresh EXCEPT !.outcome = "noop", !.job = "group",
                                                     !.group_id = g]
               /\ UNCHANGED sync_log
          ELSE /\ sync_log' = AddLog(sync_log, "info", 0, Msg("refresh_start", g))
               /\ refresh_job' = RefreshStarted("group", g, sel)
    /\ env.events + 2 <= MaxEvents
    /\ env' = [env EXCEPT !.events = @ + 2]
    /\ UNCHANGED <<jobs, requests, history, ingested, manual, now, groups, accounts, emails,
                   group_offsets, new_email_events, tick>>

\* auto_refresh_all_tokens up to the loop; without accounts it logs its two lines
AutoRefreshAllTokens ==
    /\ refresh_job.pc = "idle"
    /\ LET sel == RefreshAccounts(accounts, Acc)
           started == AddLog(sync_log, "info", 0, Msg("refresh_start", NoGroup))
       IN IF sel = <<>>
          THEN /\ refresh_job' = [IdleRefresh EXCEPT !.outcome = "done", !.job = "all"]
               /\ sync_log' = AddLog(started, "info", 0, Msg("refresh_done", 0))
          ELSE /\ sync_log' = started
               /\ refresh_job' = RefreshStarted("all", NoGroup, sel)
    /\ env.events + 2 <= MaxEvents
    /\ env' = [env EXCEPT !.events = @ + 2]
    /\ UNCHANGED <<jobs, requests, history, ingested, manual, now, groups, accounts, emails,
                   group_offsets, new_email_events, tick>>

\* the loop of the job takes the next account, or the job logs its counts and ends
RefreshNext(r, ok) ==
    LET u == [r EXCEPT !.results = Append(@, [ account |-> r.accounts[r.k], ok |-> ok ]),
                       !.success_count = IF ok THEN @ + 1 ELSE @,
                       !.fail_count = IF ok THEN @ ELSE @ + 1]
    IN IF r.k < Len(r.accounts)
       THEN [u EXCEPT !.k = @ + 1, !.pc = "call"]
       ELSE [u EXCEPT !.pc = "idle", !.outcome = "done"]

\* the closing line of the job: the number of accounts refreshed (the failures are
\* the other accounts)
RefreshLogged(log, r) ==
    IF r.pc = "idle" THEN AddLog(log, "info", 0, Msg("refresh_done", r.success_count))
    ELSE log

\* _do_refresh_one: refresh_access_token returned, the fields are assigned
DoRefreshOneOk(expires_in, rotated) ==
    /\ refresh_job.pc = "call"
    /\ Refreshable(refresh_job.sess[RefreshCur])
    /\ LET a == RefreshCur
           access == env.issued + 1
           refresh_token == IF rotated THEN env.issued + 1
                            ELSE refresh_job.sess[a].refresh_token
       IN refresh_job' = [refresh_job EXCEPT
                         !.pc = "commit", !.ok = TRUE,
                         !.sess[a] = RefreshSucceeded(@, access, refresh_token,
                                                      expires_in, now)]
    /\ env' = [env EXCEPT !.issued = @ + 1, !.refresh_calls = @ + 1]
    /\ UNCHANGED <<jobs, requests, history, ingested, manual, now, groups, accounts, emails,
                   group_offsets, sync_log, new_email_events, tick>>

\* _do_refresh_one returns False: at once when the client id or the refresh token
\* is missing, or after refresh_access_token raised and the error was assigned
DoRefreshOneFalse(errlen) ==
    /\ refresh_job.pc = "call"
    /\ LET a == RefreshCur
       IN IF ~Refreshable(refresh_job.sess[a])
          THEN /\ refresh_job' = RefreshNext(refresh_job, FALSE)
               /\ sync_log' = RefreshLogged(sync_log, refresh_job')
               /\ UNCHANGED env
          ELSE /\ env' = [env EXCEPT !.refresh_calls = @ + 1]
               /\ refresh_job' = [refresh_job EXCEPT !.pc = "commit", !.ok = FALSE,
                                             !.sess[a] = RefreshRaised(@, errlen)]
               /\ UNCHANGED sync_log
    /\ UNCHANGED <<jobs, requests, history, ingested, manual, now, groups, accounts, emails,
                   group_offsets, new_email_events, tick>>

\* _do_refresh_one: await session.commit(), return; the loop goes on
RefreshCommit ==
    /\ refresh_job.pc = "commit"
    /\ accounts' = Flush(accounts, refresh_job.sess, refresh_job.snap)
    /\ refresh_job' = RefreshNext([refresh_job EXCEPT !.snap = refresh_job.sess], refresh_job.ok)
    /\ sync_log' = RefreshLogged(sync_log, refresh_job')
    /\ UNCHANGED <<jobs, requests, history, ingested, manual, now, groups, emails,
                   group_offsets, new_email_events, tick, env>>

Next ==
    \/ \E g \in Grp : TickLoad(g)
    \/ GateFast
    \/ \E e \in ExpiresInVals, r \in BOOLEAN : GateRefreshOk(e, r)
    \/ GateRefreshFail
    \/ CommitSkipOk
    \/ \E n \in CommitErrLens : CommitSkipFail(n)
    \/ \E resp \in {EmptyResp} \cup MailResps, c \in BOOLEAN : GraphOk(resp, c)
    \/ \E kind \in {"error", "proxy"}, n \in GraphErrLens : GraphFail(kind, n)
    \/ \E resp \in {EmptyResp} \cup MailResps : ImapOk(resp)
    \/ \E n \in ImapErrLens : ImapFail(n)
    \/ FinalCommitOk
    \/ FinalCommitFail
    \/ \E a \in ManualAccounts : ManualStart(a)
    \/ ManualGateFast
    \/ \E e \in ExpiresInVals, r \in BOOLEAN : ManualGateRefreshOk(e, r)
    \/ ManualGateRefreshFail
    \/ \E resp \in {EmptyResp} \cup MailResps, c \in BOOLEAN : ManualGraphOk(resp, c, c)
    \/ \E kind \in {"error", "proxy"}, n \in GraphErrLens, c \in BOOLEAN :
          ManualGraphFail(kind, n, c)
    \/ \E resp \in {EmptyResp} \cup MailResps, ok \in BOOLEAN : ManualImapOk(resp, ok)
    \/ \E n \in ImapErrLens, c \in BOOLEAN : ManualImapFail(n, c)
    \/ AdvanceClock
    \/ \E a \in Acc, g \in Grp \cup {NoGroup} : UpdateAccountGroup(a, g)

Spec == Init /\ [][Next]_vars

(* The scheduler together with the routes of the API layer that read or change   *)
(* what the scheduler works on: the groups may start with auto_sync off, the     *)
(* event map is drained, groups are switched and deleted, sync-all is called.    *)
(* The provider answers every call of these runs; the commit of a batch may      *)
(* still fail.                                                                   *)
InitApi ==
    /\ now = 0
    /\ groups \in [ Grp -> [ auto_sync : BOOLEAN, sync_batch_size : BatchSizes,
                             proxy_url : {TRUE} ] ]
    /\ \E D \in InitDisabled : accounts = InitAccounts(D)
    /\ jobs = SetupGroupJobs(groups)
    /\ requests = NoRequests
    /\ emails = {}
    /\ group_offsets = <<>>
    /\ sync_log = <<>>
    /\ new_email_events = <<>>
    /\ tick = IdleTick
    /\ manual = IdleManual
    /\ refresh_job = IdleRefresh
    /\ history = <<>>
    /\ ingested = {}
    /\ env = [ attempts |-> 0, events |-> 0,
               issued |-> 1, refresh_calls |-> 0, records |-> 0 ]

NextApi ==
    \/ \E g \in Grp : TickLoad(g)
    \/ GateFast
    \/ \E e \in ExpiresInVals, r \in BOOLEAN : GateRefreshOk(e, r)
    \/ \E resp \in {EmptyResp} \cup MailResps, c \in BOOLEAN : GraphOk(resp, c)
    \/ FinalCommitOk
    \/ FinalCommitFail
    \/ GetNotifications
    \/ SyncAllNow
    \/ \E g \in Grp, on \in BOOLEAN : UpdateGroup(g, on)
    \/ \E g \in Grp : DeleteGroup(g)

ApiSpec == InitApi /\ [][NextApi]_vars

(* The sync log on its own: entry after entry is recorded until the log is full   *)
(* and beyond.  The n-th entry carries a message of n characters, which tells the *)
(* entries apart; env.records counts the calls of _add_log.                       *)
\* _add_log("info", "-", message)
LogRecord ==
    /\ env.records < MaxRecords
    /\ sync_log' = AddLog(sync_log, "info", 0, Msg("text", env.records + 1))
    /\ env' = [env EXCEPT !.records = @ + 1]
    /\ UNCHANGED <<refresh_job, jobs, requests, history, ingested, manual, now, groups, accounts, emails,
                   group_offsets, new_email_events, tick>>

NextLog == LogRecord

LogSpec == Init /\ [][NextLog]_vars

(* The ingest on its own: plain runs of the tick in which the provider hands   *)
(* over every kind of list, messages without an id among them.                 *)
NextIngest ==
    \/ \E g \in Grp : TickLoad(g)
    \/ GateFast
    \/ \E e \in ExpiresInVals, r \in BOOLEAN : GateRefreshOk(e, r)
    \/ \E resp \in IngestResps : GraphOk(resp, TRUE)
    \/ FinalCommitOk
    \/ FinalCommitFail

IngestSpec == Init /\ [][NextIngest]_vars

(* The scheduler with its token-refresh jobs: plain runs of the tick (every      *)
(* provider call succeeds on an empty mailbox and rotates the refresh token,    *)
(* every commit succeeds) next to a job that refreshes the tokens of a group or *)
(* of every account and meets a provider that answers or fails.                 *)
NextRefresh ==
    \/ \E g \in Grp : TickLoad(g)
    \/ GateFast
    \/ \E e \in ExpiresInVals : GateRefreshOk(e, TRUE)
    \/ GraphOk(EmptyResp, TRUE)
    \/ FinalCommitOk
    \/ \E g \in Grp : RefreshGroupTokens(g)
    \/ AutoRefreshAllTokens
    \/ \E e \in ExpiresInVals : DoRefreshOneOk(e, TRUE)
    \/ \E n \in GraphErrLens : DoRefreshOneFalse(n)
    \/ RefreshCommit

RefreshSpec == Init /\ [][NextRefresh]_vars

(* ======================================================================= *)
(*                               Properties                                *)
(* ======================================================================= *)
TickHasBatch == tick.outcome \in {"running", "returned", "raised"}
TickEnded == tick.pc = "idle" /\ tick.outcome \in {"returned", "raised"}
Processed == [ i \in 1..Len(tick.results) |-> tick.results[i].account ]
IsPrefix(s, t) == Len(s) <= Len(t) /\ \A i \in 1..Len(s) : s[i] = t[i]
StartCursor == Get(tick.start_offsets, tick.group_id, 0)

\* the non-disabled accounts of the group when the tick loaded it, ordered by id
Members(g) ==
    SortedSeq({ a \in Acc : /\ tick.start_rows[a].group_id = g
                            /\ tick.start_rows[a].status # "disabled" })

\* (c mod total + i) mod total for i = 0..b-1, first occurrences only
SelectedIndices(c, b, total) ==
    LET raw == [ i \in 1..b |-> ((c % total) + (i - 1)) % total ]
        first == { i \in 1..b : \A j \in 1..(i - 1) : raw[j] # raw[i] }
    IN [ n \in 1..Cardinality(first) |->
           raw[CHOOSE i \in first : Cardinality({ j \in first : j < i }) = n - 1] ]

\* C1: in a tick of a group with total >= 1 non-disabled accounts (ordered by id),
\* stored cursor c and batch size b, the accounts processed are those at the indices
\* (c mod total + i) mod total, i = 0..b-1, repeats removed, in that order: the
\* accounts processed so far are a prefix of that list, and all of it once the loop
\* has ended.
C1_BatchSelection ==
    TickHasBatch =>
        LET idx == SelectedIndices(StartCursor, tick.batch_size, tick.total)
            sel == [ n \in 1..Len(idx) |-> Members(tick.group_id)[idx[n] + 1] ]
        IN /\ tick.total = Len(Members(tick.group_id))
           /\ tick.total >= 1
           /\ IsPrefix(Processed, sel)
           /\ tick.pc \in {"final_commit", "idle"} => Processed = sel

\* a second tick over three accounts with batch size 2 wraps: accounts 3 and 1
C1_Witness ==
    /\ TickEnded /\ tick.total = 3 /\ tick.batch_size = 2
    /\ StartCursor = 2 /\ Processed = <<3, 1>>

\* the stored cursor exceeds the population after an account left the group
C1_WitnessShrunk ==
    /\ TickEnded /\ StartCursor >= tick.total /\ Len(Processed) >= 1

Results == { tick.results[i] : i \in 1..Len(tick.results) }

\* no later account of the batch had its commit raise (which rolls the session back)
Kept(i) == \A j \in (i + 1)..Len(tick.results) : tick.results[j].result # "commit_failed"

\* log entries appended since the tick loaded, newest first
TickLog == SubSeq(sync_log, 1, Len(sync_log) - tick.start_log)

\* C3: when syncing a selected account raises, that account ends the tick with
\* status = error and a non-empty last_error of at most 500 characters (also in the
\* rows the tick's commit stored, unless another session wrote the row meanwhile), an
\* error log entry for it is appended, and the
\* loop goes on: when it ends every selected account has been processed.
C3_FailureIsolation ==
    TickHasBatch =>
        /\ \A i \in 1..Len(tick.results) :
              LET r == tick.results[i]
                  a == r.account
              IN (r.result # "ok" /\ Kept(i)) =>
                    /\ tick.sess[a].status = "error"
                    /\ tick.sess[a].last_error \in 1..LAST_ERROR_MAX
                    /\ \E n \in 1..Len(TickLog) :
                          TickLog[n].level = "error" /\ TickLog[n].email = a
                    /\ (tick.outcome = "returned" /\ a \in tick.clean) =>
                          /\ tick.stored[a].status = "error"
                          /\ tick.stored[a].last_error = tick.sess[a].last_error
        /\ tick.pc \in {"final_commit", "idle"} =>
              Len(tick.results) = Len(tick.unique_indices)

\* the first of two selected accounts failed on every protocol, the second synced
C3_Witness ==
    /\ tick.outcome = "returned" /\ Len(tick.results) = 2
    /\ tick.results[1].result = "all_failed" /\ tick.results[2].result = "ok"
    /\ {tick.results[1].account, tick.results[2].account} \subseteq tick.clean
    /\ tick.stored[tick.results[1].account].status = "error"
    /\ tick.stored[tick.results[2].account].status = "active"

\* C4 (as stated): the tick never propagates an exception to its caller.
C4_NeverRaises == tick.outcome # "raised"

\* C5 (as stated): after a tick over several accounts, every account that synced
\* successfully has status = active, its new last_synced and its newly ingested
\* messages in the store, whatever happened to the other accounts and to the commits.
C5_NoCrossAccountRollback ==
    (TickEnded /\ Len(tick.results) >= 2) =>
        \A r \in Results :
            (r.result = "ok" /\ r.account \in tick.clean) =>
                /\ tick.stored[r.account].status = "active"
                /\ tick.stored[r.account].last_synced = r.at
                /\ \A m \in Range(r.ids) : EmailRow(r.account, m) \in emails

(* --------------------------- fallback chain --------------------------- *)
\* the order the claims state: the affinity protocol first, then the default order
ClaimedOrder(affinity) ==
    CASE affinity = "imap_new" -> <<"imap_new", "graph", "imap_old">>
      [] affinity = "imap_old" -> <<"imap_old", "graph", "imap_new">>
      [] OTHER -> <<"graph", "imap_new", "imap_old">>

TriedMethods(tried) == [ i \in 1..Len(tried) |-> tried[i].method ]

\* the attempts of the tick: <<account, protocols tried, finished, sync_method of the
\* account when its protocol order was computed>>
Attempts ==
    { <<r.account, r.tried, TRUE, r.affinity>> : r \in Results }
        \cup (IF tick.pc = "fetch" THEN { <<Cur, tick.tried, FALSE, tick.affinity>> } ELSE {})

\* C6: in every sync attempt the protocols tried are a prefix of [affinity, then the
\* rest of graph, imap_new, imap_old], none is tried twice, and none is tried after
\* one has succeeded.
C6_FallbackOrder ==
    TickHasBatch =>
        \A at \in Attempts :
            LET tried == at[2]
                ms == TriedMethods(tried)
            IN /\ IsPrefix(ms, ClaimedOrder(at[4]))
               /\ \A i, j \in 1..Len(ms) : i # j => ms[i] # ms[j]
               /\ \A i \in 1..Len(tried) :
                     tried[i].outcome = "ok" => (i = Len(tried) /\ at[3])

\* an account with affinity imap_old: imap_old and graph fail, imap_new succeeds
C6_Witness ==
    \E r \in Results :
        /\ r.affinity = "imap_old"
        /\ TriedMethods(r.tried) = <<"imap_old", "graph", "imap_new">>
        /\ r.tried[3].outcome = "ok"

\* C7 (as stated): a protocol attempt that fails with ProxyError ends the sync attempt:
\* no further protocol is tried after it.
C7_ProxyShortCircuit ==
    TickHasBatch =>
        \A at \in Attempts :
            \A i \in 1..Len(at[2]) : at[2][i].outcome = "proxy" => i = Len(at[2])

\* C8: when every protocol fails, the account ends with sync_method = none,
\* graph_enabled = unknown and status = error (also in the store once the tick has
\* committed), and an attempt on an account whose sync_method is none tries the
\* protocols in the order graph, imap_new, imap_old.
C8_AffinityReset ==
    TickHasBatch =>
        /\ \A i \in 1..Len(tick.results) :
              LET r == tick.results[i]
                  a == r.account
                  Reset(row) == /\ row.sync_method = "none"
                                /\ row.graph_enabled = "unknown"
                                /\ row.status = "error"
              IN (r.result = "all_failed" /\ Kept(i)) =>
                    /\ TriedMethods(r.tried) \in
                          { ClaimedOrder(m) : m \in Methods \cup {"none"} }
                    /\ Reset(tick.sess[a])
                    /\ (tick.outcome = "returned" /\ a \in tick.clean) =>
                          Reset(tick.stored[a])
        /\ \A at \in Attempts :
              at[4] = "none" =>
                  IsPrefix(TriedMethods(at[2]), DefaultOrder)

\* an account that lost its affinity in a total failure is tried again, graph first
C8_Witness ==
    /\ tick.pc = "fetch" /\ Len(tick.tried) >= 1
    /\ tick.tried[1].method = "graph"
    /\ LET row == tick.start_rows[Cur]
       IN /\ row.status = "error" /\ row.sync_method = "none"
          /\ row.graph_enabled = "unknown"
          /\ row.last_synced # NoTime
          /\ row.last_error > TokenFailedText

\* C9: for the first protocol p that succeeds, the account gets sync_method = p, the
\* capability flag of p true, unread_count = the count p returned, status = active and
\* no last_error (also in the store once the tick has committed), and an attempt on an
\* account whose sync_method is p tries p first.
C9_SuccessEffects ==
    TickHasBatch =>
        /\ \A i \in 1..Len(tick.results) :
              LET r == tick.results[i]
                  a == r.account
                  p == r.tried[Len(r.tried)].method
                  Done(row) ==
                      /\ row.sync_method = p
                      /\ (IF p = "graph" THEN row.graph_enabled ELSE row.imap_enabled) = "true"
                      /\ row.unread_count = r.unread
                      /\ row.status = "active"
                      /\ row.last_error = NoText
              IN (r.result = "ok" /\ Kept(i)) =>
                    /\ \A n \in 1..(Len(r.tried) - 1) : r.tried[n].outcome # "ok"
                    /\ Done(tick.sess[a])
                    /\ (tick.outcome = "returned" /\ a \in tick.clean) =>
                          Done(tick.stored[a])
        /\ \A at \in Attempts :
              (at[4] \in Methods /\ at[2] # <<>>) =>
                  at[2][1].method = at[4]

\* graph and imap_new failed, imap_old answered 2 unread; the tick committed
C9_Witness ==
    /\ tick.outcome = "returned"
    /\ \E r \in Results :
          /\ r.result = "ok" /\ r.unread = 2
          /\ TriedMethods(r.tried) = <<"graph", "imap_new", "imap_old">>
          /\ r.account \in tick.clean
          /\ tick.stored[r.account].sync_method = "imap_old"
          /\ tick.stored[r.account].imap_enabled = "true"
          /\ tick.stored[r.account].unread_count = 2

(* ------------------------------ token gate ---------------------------- *)
\* C10: for an account whose token_expires_at is more than 5 minutes ahead, the gate
\* returns true (the sync goes on to the fetch), makes no token-refresh call and
\* changes no token field.
C10_FastPath ==
    [][ ( /\ tick.pc = "gate" /\ tick'.pc # "gate"
          /\ tick.sess[Cur].token_expires_at # NoTime
          /\ tick.sess[Cur].token_expires_at - now > 5 )
        => ( /\ tick'.pc = "fetch"
             /\ env'.refresh_calls = env.refresh_calls
             /\ tick'.sess[Cur].access_token = tick.sess[Cur].access_token
             /\ tick'.sess[Cur].refresh_token = tick.sess[Cur].refresh_token
             /\ tick'.sess[Cur].token_expires_at = tick.sess[Cur].token_expires_at ) ]_vars

\* the gate let an account through without a refresh
C10_Witness ==
    /\ tick.pc = "fetch" /\ tick.gate = "fast"
    /\ tick.sess[Cur].token_expires_at > now + 5

(* ----------------------------- token trust ---------------------------- *)
Passed == {"fast", "refreshed"}

\* C11 (as stated): no protocol fetch is issued in a sync attempt, scheduled or manual,
\* unless the gate of that attempt found the token still valid or refreshed it
\* successfully.
C11_NoUntrustedFetch ==
    /\ \A r \in Results : r.tried # <<>> => r.gate \in Passed
    /\ tick.tried # <<>> => tick.gate \in Passed
    /\ manual.tried # <<>> => manual.gate \in Passed

TokenFields(row) == <<row.access_token, row.refresh_token, row.token_expires_at>>

\* C12: when the token refresh raises, the gate returns false (the tick takes the skip
\* path, the request notes the failure) and access_token, refresh_token and
\* token_expires_at of the account are what they were before the call.
C12_RefreshFailureKeepsTokens ==
    [][ /\ (tick.pc = "gate" /\ tick'.gate = "failed") =>
              /\ tick'.pc = "commit_skip"
              /\ TokenFields(tick'.sess[Cur]) = TokenFields(tick.sess[Cur])
        /\ (manual.pc = "gate" /\ manual'.gate = "failed") =>
              /\ manual'.sync_error_details = <<TokenFailedText>>
              /\ TokenFields(manual'.sess[manual.account]) =
                     TokenFields(manual.sess[manual.account]) ]_vars

\* the refresh failed for an account that held an expired token
C12_Witness ==
    /\ tick.pc = "commit_skip" /\ tick.gate = "failed"
    /\ tick.sess[Cur].access_token # NoToken
    /\ tick.sess[Cur].token_expires_at # NoTime
    /\ tick.sess[Cur].token_expires_at <= now + TOKEN_MARGIN

\* C13 (as stated): after a tick in which the gate returned false for an account, no
\* protocol was tried for that account, every selected account was processed and the
\* cursor of the group has advanced.
C13_SkipOnlyThatAccount ==
    (TickEnded /\ \E r \in Results : r.result = "token_failed") =>
        /\ \A r \in Results : r.result = "token_failed" => r.tried = <<>>
        /\ Len(tick.results) = Len(tick.unique_indices)
        /\ Get(group_offsets, tick.group_id, 0) =
               (tick.offset + Len(tick.unique_indices)) % tick.total

(* -------------------------------- ingest ------------------------------ *)
\* the message ids the session of the tick holds for the account, stored or added
HeldIds(a) ==
    { e.message_id : e \in { x \in emails \cup BagToSet(tick.added) : x.account_id = a } }

ListIds(value) == { value[i].id : i \in 1..Len(value) } \ {NoMsgId}

\* C14 (as stated): an ingest of a list that was already ingested for the account
\* adds no message and returns 0.
C14_ReingestAddsNothing ==
    \A r \in Results : (r.result = "ok" /\ r.again) => r.ids = <<>>

KeyUnique(rows) ==
    \A e, f \in rows :
        (e.account_id = f.account_id /\ e.message_id = f.message_id) => e = f

\* C15 (as stated): the store never holds, and the ingest never adds to the session, two
\* messages with the same (account_id, message_id), nor a message whose key is stored.
C15_MessageUniqueness ==
    /\ KeyUnique(emails)
    /\ \A e \in BagToSet(tick.added) :
          /\ CopiesIn(e, tick.added) = 1
          /\ \A f \in (emails \cup BagToSet(tick.added)) \ {e} :
                ~(f.account_id = e.account_id /\ f.message_id = e.message_id)

\* C16: a fetched message whose id is already known for the account is not counted as
\* new and is not added, and no stored message ever changes or disappears: with one row
\* per (account_id, message_id), the stored fields stay what they were.
C16_NoUpdateOnConflict ==
    /\ [](/\ KeyUnique(emails)
          /\ \A r \in Results :
                \A n \in 1..Len(r.ids) : r.ids[n].id \notin r.known)
    /\ [][emails \subseteq emails']_vars

\* message 1 is stored with subject 1 and was fetched again with subject 2
C16_Witness ==
    /\ tick.outcome = "returned"
    /\ \E r \in Results :
          /\ r.result = "ok" /\ 1 \in r.known
          /\ r.value = <<Message(2, 1), Message(1, 2)>>
          /\ r.ids = <<Message(2, 1)>>
          /\ EmailRow(r.account, Message(1, 1)) \in emails
          /\ EmailRow(r.account, Message(2, 1)) \in emails
          /\ EmailRow(r.account, Message(1, 2)) \notin emails

(* ------------------------------ rotation ------------------------------ *)
\* ticks i..j found the same population and batch size
Unchanging(i, j) ==
    \A n \in i..j : /\ history[n].group_id = history[i].group_id
                    /\ history[n].members = history[i].members
                    /\ history[n].batch_size = history[i].batch_size

\* ceil(total / b)
Rotation(total, b) == (total + b - 1) \div b

SelectionCount(a, i, j) == Cardinality({ n \in i..j : a \in history[n].selected })

\* C17 (as stated): over any ceil(total / b) consecutive ticks of a group with an
\* unchanging population, every account of the group is selected at least once.
C17_BoundedLatency ==
    \A i \in 1..Len(history) :
        LET w == Rotation(Len(history[i].members), history[i].batch_size)
            j == i + w - 1
        IN (j <= Len(history) /\ Unchanging(i, j)) =>
              \A a \in Range(history[i].members) : SelectionCount(a, i, j) >= 1

\* C18 (as stated): over the ticks of a group with an unchanging population the
\* selection counts of any two accounts differ by at most one, and after k full
\* rotations every account has been selected at least k * b / total times, less one.
C18_RoundRobinFairness ==
    \A i \in 1..Len(history) : \A j \in i..Len(history) :
        Unchanging(i, j) =>
            LET total == Len(history[i].members)
                b == history[i].batch_size
                k == (j - i + 1) \div Rotation(total, b)
            IN \A x, y \in Range(history[i].members) :
                  /\ SelectionCount(x, i, j) - SelectionCount(y, i, j) <= 1
                  /\ (SelectionCount(x, i, j) + 1) * total >= k * b

\* C19: the accounts a tick works on are the non-disabled accounts of the group as
\* loaded, total counts exactly those, and no step of the tick changes the row of an
\* account that was disabled when the tick loaded the group.
C19_DisabledOutside ==
    /\ [](TickHasBatch =>
            LET eligible == { a \in Acc : /\ tick.start_rows[a].group_id = tick.group_id
                                          /\ tick.start_rows[a].status # "disabled" }
            IN /\ Range(tick.all_accounts) = eligible
               /\ tick.total = Cardinality(eligible)
               /\ DOMAIN tick.sess = eligible
               /\ \A r \in Results : r.account \in eligible
               /\ \A x \in Range(tick.unique_indices) : x < tick.total)
    /\ [][ (tick' # tick /\ manual' = manual /\ tick.pc # "idle") =>
              \A a \in Acc : tick.start_rows[a].status = "disabled" =>
                                accounts'[a] = accounts[a] ]_vars

\* account 2 of the group is disabled: the batch of two is accounts 1 and 3
C19_Witness ==
    /\ tick.outcome = "returned"
    /\ tick.start_rows[2].status = "disabled"
    /\ tick.start_rows[2].group_id = tick.group_id
    /\ tick.total = NumAccounts - 1
    /\ Processed = <<1, 3>>
    /\ accounts[2] = tick.start_rows[2]

\* C20 (as stated): no account is in two sync attempts at once, whether of a tick or of
\* the manual sync route, and a batch holds an account at most once.
C20_OneInFlight ==
    /\ \A i, j \in 1..Len(tick.results) :
          i # j => tick.results[i].account # tick.results[j].account
    /\ ~( /\ tick.pc \in {"gate", "commit_skip", "fetch"}
          /\ manual.pc # "idle"
          /\ manual.account = Cur )

\* the step in which the tick finishes an attempt with a success
SuccessStep ==
    /\ tick.pc = "fetch"
    /\ Len(tick'.results) = Len(tick.results) + 1
    /\ tick'.results[Len(tick'.results)].result = "ok"

\* C21: when a scheduled sync observes an unread count u greater than the count p the
\* account held before, the event map entry of the account becomes u - p, whatever
\* entry was there, and the other entries stay; when u <= p the event map stays as it
\* is.
C21_NewMailEvent ==
    [][SuccessStep =>
          LET r == tick'.results[Len(tick'.results)]
              a == r.account
              p == tick.sess[a].unread_count
              u == r.unread
          IN IF u > p
             THEN /\ DOMAIN new_email_events' = DOMAIN new_email_events \cup {a}
                  /\ new_email_events'[a] = u - p
                  /\ \A b \in DOMAIN new_email_events \ {a} :
                        new_email_events'[b] = new_email_events[b]
             ELSE new_email_events' = new_email_events]_vars

\* an account whose entry of 2 was never drained and whose count fell back to 0 is
\* synced again with 2 unread: its entry is 2, not 4
C21_Witness ==
    \E r \in Results :
        /\ r.result = "ok" /\ r.unread = 2
        /\ r.account \in DOMAIN tick.start_events
        /\ tick.start_events[r.account] = 2
        /\ tick.start_rows[r.account].unread_count = 0
        /\ new_email_events[r.account] = 2

\* the step in which a call of get_notifications is answered
DrainStep == Len(requests'.notifications) = Len(requests.notifications) + 1

\* C22: a drain of the event map returns exactly the entries the map holds at that
\* moment and leaves the map empty, so that a drain that follows another one with no
\* sync in between returns the empty map.
C22_Drain ==
    [][DrainStep =>
          /\ requests'.notifications[Len(requests'.notifications)] = new_email_events
          /\ DOMAIN new_email_events' = {}]_vars

\* a sync saw the unread count rise from 0 to 2; the first drain returned the entry of
\* the account, the second one the empty map
C22_Witness ==
    /\ Len(requests.notifications) = 2
    /\ \E a \in Acc : /\ DOMAIN requests.notifications[1] = {a}
                       /\ requests.notifications[1][a] = 2
                       /\ accounts[a].unread_count = 2
    /\ DOMAIN requests.notifications[2] = {}
    /\ DOMAIN new_email_events = {}

\* C23: after any number of records the log holds at most 200 entries, ordered from
\* the most recent to the least recent one, and they are the most recent ones: when a
\* record arrives at capacity, the oldest entry and no other is dropped.
C23_BoundedNewestFirst ==
    /\ Len(sync_log) <= MAX_LOG_ENTRIES
    /\ Len(sync_log) = Min(env.records, MAX_LOG_ENTRIES)
    /\ \A i \in 1..Len(sync_log) : sync_log[i].message = Msg("text", env.records - i + 1)

\* the log was full when a record arrived: the first entry is gone, the second one is
\* now the oldest
C23_Witness ==
    /\ env.records = MAX_LOG_ENTRIES + 1
    /\ Len(sync_log) = MAX_LOG_ENTRIES
    /\ sync_log[1].message = Msg("text", MAX_LOG_ENTRIES + 1)
    /\ sync_log[MAX_LOG_ENTRIES].message = Msg("text", 2)

\* C24 (as stated): after a tick in which every selected account failed, by a token
\* refresh failure or by all protocols failing, the cursor of the group has advanced
\* as after a tick in which every account succeeded.
C24_RotationAfterFailures ==
    (TickEnded /\ \A r \in Results : r.result \in {"token_failed", "all_failed"}) =>
        Get(group_offsets, tick.group_id, 0) =
            (tick.offset + Len(tick.unique_indices)) % tick.total

\* the step in which the job of a group fires
FireStep == tick.pc = "idle" /\ tick' # tick

\* C25: a tick fired for a group whose auto_sync is false, or that no longer exists,
\* changes no account and no message, leaves the cursor, the sync log and the event
\* map as they are, and is over at once: no provider call is made for it.
C25_InvisibleGroup ==
    [][(FireStep /\ LET g == tick'.group_id
                    IN g \notin DOMAIN groups \/ ~groups[g].auto_sync) =>
          /\ tick'.pc = "idle" /\ tick'.outcome = "noop"
          /\ UNCHANGED <<accounts, emails, group_offsets, sync_log, new_email_events,
                         env>>]_vars

\* the job of a group that was switched off after startup fired; the group has an
\* account the tick would have synced
C25_Witness ==
    /\ tick.outcome = "noop"
    /\ tick.group_id \in jobs
    /\ tick.group_id \in DOMAIN groups
    /\ ~groups[tick.group_id].auto_sync
    /\ \E a \in Acc : /\ accounts[a].group_id = tick.group_id
                       /\ accounts[a].status = "active"
                       /\ accounts[a].last_synced = NoTime

\* C26 (as stated): every group whose auto_sync is true has a registered sync job.
C26_EveryAutoSyncGroupHasJob ==
    \A g \in DOMAIN groups : groups[g].auto_sync => g \in jobs

\* C28 (as stated): every call of the sync-all route ran a sync cycle and reported
\* completion.
C28_SyncAllCompletes ==
    \A i \in 1..Len(requests.sync_all) : requests.sync_all[i] = "completed"

\* C27: a sync that succeeds over imap_new or imap_old leaves graph_enabled as it was
\* before the attempt, also when Graph was tried and failed in the attempt, and a sync
\* that succeeds over graph leaves imap_enabled as it was.
C27_LoserFlagsUntouched ==
    [][SuccessStep =>
          LET r == tick'.results[Len(tick'.results)]
              a == r.account
              p == r.tried[Len(r.tried)].method
              before == tick.snap[a]
              after == tick'.sess[a]
          IN /\ p \in {"imap_new", "imap_old"} => after.graph_enabled = before.graph_enabled
             /\ p = "graph" => after.imap_enabled = before.imap_enabled]_vars

\* an account that Graph served before: graph fails, imap_new fails, imap_old succeeds;
\* sync_method is imap_old, imap_enabled is true and graph_enabled is still true
C27_Witness ==
    \E i \in 1..Len(tick.results) :
        LET r == tick.results[i]
            a == r.account
        IN /\ r.result = "ok" /\ Kept(i)
           /\ TriedMethods(r.tried) = <<"graph", "imap_new", "imap_old">>
           /\ tick.start_rows[a].graph_enabled = "true"
           /\ tick.start_rows[a].imap_enabled = "unknown"
           /\ tick.sess[a].sync_method = "imap_old"
           /\ tick.sess[a].imap_enabled = "true"
           /\ tick.sess[a].graph_enabled = "true"

\* the step in which the gate of the tick refreshed the token of the account
RefreshedStep == tick.pc = "gate" /\ tick'.gate = "refreshed"

\* C29: when the gate refreshes and the provider call succeeds, access_token and
\* refresh_token of the account become the returned values, token_expires_at becomes
\* the time of the call plus the returned expires_in, nothing else of the account
\* changes, and the gate returns true: the attempt goes on to the protocols.
C29_RefreshSuccess ==
    [][RefreshedStep =>
          LET a == Cur
              before == tick.sess[a]
              after == tick'.sess[a]
              token_data == tick'.token_data
          IN /\ token_data.access_token # NoToken
             /\ after = [before EXCEPT
                            !.access_token = token_data.access_token,
                            !.refresh_token = token_data.refresh_token,
                            !.token_expires_at = now + token_data.expires_in]
             /\ tick'.pc = "fetch"
             /\ env'.refresh_calls = env.refresh_calls + 1]_vars

\* the provider rotated the refresh token: the account holds the new one, a new access
\* token and an expiry of now + expires_in
C29_Witness ==
    /\ tick.pc = "fetch" /\ tick.gate = "refreshed"
    /\ tick.token_data.refresh_token # tick.start_rows[Cur].refresh_token
    /\ tick.sess[Cur].refresh_token = tick.token_data.refresh_token
    /\ tick.sess[Cur].access_token = tick.token_data.access_token
    /\ tick.sess[Cur].access_token # tick.start_rows[Cur].access_token
    /\ tick.sess[Cur].token_expires_at = now + tick.token_data.expires_in

\* C30 (as stated): a token refresh of the gate for an account that has no client_id
\* of its own is made with the configured default client id.
C30_DefaultClientIdFallback ==
    \A r \in Results :
        (r.client_id # "unsent" /\ tick.start_rows[r.account].client_id = NoClientId) =>
            r.client_id = DEFAULT_CLIENT_ID


(* ----------------------------------------------------------------------- *)
RECURSIVE Fresh(_, _)
\* the messages of a list that carry an id which is not among the known ones
Fresh(known, value) ==
    IF value = <<>> THEN <<>>
    ELSE IF Head(value).id = NoMsgId \/ Head(value).id \in known
         THEN Fresh(known, Tail(value))
         ELSE <<Head(value)>> \o Fresh(known, Tail(value))

C32_NoEventLost ==
    [][IF DrainStep
       THEN LET answer == requests'.notifications[Len(requests'.notifications)]
            IN \A a \in DOMAIN new_email_events \ DOMAIN new_email_events' :
                   a \in DOMAIN answer /\ answer[a] = new_email_events[a]
       ELSE \A a \in DOMAIN new_email_events :
                /\ a \in DOMAIN new_email_events'
                /\ new_email_events'[a] # new_email_events[a] =>
                      (SuccessStep /\ tick'.results[Len(tick'.results)].account = a)]_vars

\* a tick wrote an entry of 2 for an account and was rolled back by its commit, so the
\* account's stored count is still 0; the entry stayed and the next drain returned it
C32_Witness ==
    /\ tick.pc = "idle" /\ tick.outcome = "raised"
    /\ Len(requests.notifications) = 1
    /\ \E r \in Results :
          /\ r.result = "ok" /\ r.unread = 2
          /\ accounts[r.account].unread_count = 0
          /\ r.account \in DOMAIN requests.notifications[1]
          /\ requests.notifications[1][r.account] = 2
    /\ DOMAIN new_email_events = {}

(* ----------------------------------------------------------------------- *)
\* the entry "<protocol>: <error cut at 100 characters>" of a failed protocol
IsEntryOf(item, method) ==
    \E n \in (IF method = "graph" THEN GraphErrLens ELSE ImapErrLens) :
        item = (IF method = "graph" THEN 5 ELSE 8) + 2 + (IF n > 100 THEN 100 ELSE n)

RECURSIVE Sum(_)
Sum(items) == IF items = <<>> THEN 0 ELSE Head(items) + Sum(Tail(items))

\* C33: the failure of a protocol is kept as an entry and the next protocol is tried:
\* an attempt ends with a failure only after every protocol of the order has failed,
\* and the error then recorded on the account consists of the heading and, joined by
\* "; ", one entry per protocol tried, in the order tried, none of it cut off; when a
\* protocol succeeds the account is active and has no last_error, whatever failed
\* before it.
C33_FullDiagnostics ==
    \A i \in 1..Len(tick.results) :
        LET r == tick.results[i]
            a == r.account
            n == Len(r.sync_errors)
        IN /\ r.result = "all_failed" =>
                /\ Len(r.tried) = Len(DefaultOrder)
                /\ n = Len(r.tried)
                /\ \A j \in 1..n : /\ r.tried[j].outcome # "ok"
                                    /\ IsEntryOf(r.sync_errors[j], r.tried[j].method)
                /\ Kept(i) =>
                      /\ tick.sess[a].status = "error"
                      /\ tick.sess[a].last_error = 9 + Sum(r.sync_errors) + 2 * (n - 1)
                      /\ tick.sess[a].last_error < LAST_ERROR_MAX
           /\ r.result = "ok" =>
                /\ n = Len(r.tried) - 1
                /\ \A j \in 1..n : /\ r.tried[j].outcome # "ok"
                                    /\ IsEntryOf(r.sync_errors[j], r.tried[j].method)
                /\ Kept(i) => /\ tick.sess[a].status = "active"
                              /\ tick.sess[a].last_error = NoText

\* one account failed on all three protocols and carries the three entries; another
\* one succeeded on its third protocol after two failures and carries no error
C33_Witness ==
    /\ TickEnded /\ tick.outcome = "returned"
    /\ \E r \in Results :
          /\ r.result = "all_failed"
          /\ Len(r.sync_errors) = 3
          /\ accounts[r.account].status = "error"
          /\ accounts[r.account].last_error = 9 + Sum(r.sync_errors) + 4
    /\ \E r \in Results :
          /\ r.result = "ok"
          /\ Len(r.sync_errors) = 2
          /\ accounts[r.account].status = "active"
          /\ accounts[r.account].last_error = NoText

(* ----------------------------------------------------------------------- *)
\* the group has no account that is not disabled
Unpopulated(g) == \A a \in Acc : accounts[a].group_id # g \/ accounts[a].status = "disabled"

\* C34: a group for which no tick has yet found an account has no cursor, and a tick
\* that finds no cursor starts at offset 0; the cursor changes only at the end of a
\* tick that worked on a batch, only for the group of that tick, and the value
\* written lies in 0 .. total - 1 for the population that tick loaded; a tick that
\* fires for a group without a non-disabled account is over at once and leaves the
\* cursors as they are.
C34_CursorLifecycle ==
    /\ [](/\ \A g \in DOMAIN group_offsets : \E n \in 1..Len(history) : history[n].group_id = g
          /\ (TickHasBatch /\ tick.group_id \notin DOMAIN tick.start_offsets) =>
                tick.offset = 0)
    /\ [][
          /\ group_offsets' # group_offsets =>
                /\ tick.pc = "final_commit" /\ tick.total >= 1
                /\ DOMAIN group_offsets' = DOMAIN group_offsets \cup {tick.group_id}
                /\ \A g \in DOMAIN group_offsets \ {tick.group_id} :
                       group_offsets'[g] = group_offsets[g]
                /\ group_offsets'[tick.group_id] >= 0
                /\ group_offsets'[tick.group_id] < tick.total
          /\ (FireStep /\ Unpopulated(tick'.group_id)) =>
                /\ tick'.pc = "idle" /\ tick'.outcome = "noop"
                /\ group_offsets' = group_offsets
       ]_vars

\* the only account of a group left it after a tick had written the cursor; the next
\* tick found nobody and the cursor is still there
C34_Witness ==
    /\ tick.pc = "idle" /\ tick.outcome = "noop"
    /\ Unpopulated(tick.group_id)
    /\ tick.group_id \in DOMAIN groups /\ groups[tick.group_id].auto_sync
    /\ tick.group_id \in DOMAIN group_offsets
    /\ group_offsets[tick.group_id] = 0

(* ----------------------------------------------------------------------- *)
\* C35 (as stated): no step of a group sync tick or of a token-refresh job, of a
\* group or of all accounts, changes the status of an account that is disabled.
C35_DisabledSticky ==
    [][\A a \in Acc : accounts[a].status = "disabled" => accounts'[a].status = "disabled"]_vars

(* ----------------------------------------------------------------------- *)
\* C36 (as stated): when a Graph sync of the tick fetched the messages but its query
\* of the unread count failed, the unread_count the session holds for the account is
\* the one it held before the sync.
C36_FailedCountKeepsUnread ==
    [][(SuccessStep /\ ~tick'.results[Len(tick'.results)].count_ok) =>
          LET a == tick'.results[Len(tick'.results)].account
          IN tick'.sess[a].unread_count = tick.sess[a].unread_count]_vars

(* ----------------------------------------------------------------------- *)
\* C37 (as stated): an account is stored with status syncing only while a manual
\* sync of it is running: once the request has returned, with a success or with an
\* HTTP error, the stored status is active or error; and an account a tick has
\* processed has status active or error in the tick's session.
C37_SyncingTransient ==
    /\ \A a \in Acc : accounts[a].status = "syncing" =>
                          (manual.pc # "idle" /\ manual.account = a)
    /\ (manual.pc = "idle" /\ manual.outcome \in {"ok", "error", "raised"}) =>
          accounts[manual.account].status \in {"active", "error"}
    /\ \A i \in 1..Len(tick.results) :
          Kept(i) => tick.sess[tick.results[i].account].status \in {"active", "error"}

(* ----------------------------------------------------------------------- *)
\* C38 (as stated): whatever ticks and token-refresh jobs have run, a stored account
\* with status active has no last_error, and a stored account with status error has
\* a last_error that is not empty.
C38_StatusAndErrorAgree ==
    \A a \in Acc :
        /\ accounts[a].status = "active" => accounts[a].last_error = NoText
        /\ accounts[a].status = "error" => accounts[a].last_error > 0

(* ----------------------------------------------------------------------- *)
\* the tick refreshed the token of the account and the provider rotated it
TickRotated(a) ==
    \E r \in Results : /\ r.account = a /\ r.gate = "refreshed" /\ r.result = "ok"
                        /\ tick.sess[a].refresh_token # tick.start_rows[a].refresh_token

\* the job refreshed the token of the account
JobRefreshed(a) ==
    \E i \in 1..Len(refresh_job.results) :
        refresh_job.results[i].account = a /\ refresh_job.results[i].ok

\* C39 (as stated): when a tick and a token-refresh job have both refreshed the
\* token of an account, each on its own loaded copy, and both have committed, the
\* stored refresh_token is the later of the two tokens the provider returned (the
\* provider numbers the tokens in the order it issues them).
C39_NoLostRefreshToken ==
    \A a \in Acc :
        ( /\ tick.pc = "idle" /\ tick.outcome = "returned"
          /\ refresh_job.pc = "idle" /\ refresh_job.outcome = "done"
          /\ a \in DOMAIN tick.sess /\ TickRotated(a)
          /\ a \in DOMAIN refresh_job.sess /\ JobRefreshed(a) ) =>
        LET t == tick.sess[a].refresh_token
            j == refresh_job.sess[a].refresh_token
        IN accounts[a].refresh_token = IF t > j THEN t ELSE j

(* ----------------------------------------------------------------------- *)
\* the step in which a manual sync returns with a success
ManualSuccessStep == manual.pc = "fetch" /\ manual'.pc = "idle" /\ manual'.outcome = "ok"

\* C40 (as stated): when a sync that completes, the commit of a tick or the success
\* of a manual sync, raises the stored unread_count of an account, the event map
\* then holds an entry for that account (nothing drains the map in these runs), and
\* after a manual sync the entry carries the increase.
C40_EveryRiseNotified ==
    [][\A a \in Acc :
          accounts'[a].unread_count > accounts[a].unread_count =>
              /\ a \in DOMAIN new_email_events'
              /\ ManualSuccessStep =>
                    new_email_events'[a] =
                        accounts'[a].unread_count - accounts[a].unread_count]_vars

====
